---- MODULE Spec2Model ----
(***************************************************************************)
(* A model of goldfish, a Modbus TCP server library: the binary codec of   *)
(* message.go, the read and write handlers of handler.go and the server    *)
(* (accept loop, per-connection worker, framing, dispatch) of server.go.   *)
(* Bytes are naturals 0..255, byte slices are sequences (1-based here,     *)
(* 0-based in the source).                                                 *)
(***************************************************************************)
EXTENDS Integers, Sequences, FiniteSets, TLC

\* ------------------------------------------------------------------------
\* message.go: function codes, exception codes
\* ------------------------------------------------------------------------
ReadCoils == 1
ReadDiscreteInputs == 2
ReadHoldingRegisters == 3
ReadInputRegisters == 4
WriteSingleCoil == 5
WriteSingleRegister == 6
WriteMultipleRegisters == 16

\* handler.go: Signedness (iota)
Unsigned == 0
Signed == 1

\* An error value: nil, a typed modbus.Error carrying Code, or any other error.
NilError == [isErr |-> FALSE, typed |-> FALSE, Code |-> 0]
TypedError(code) == [isErr |-> TRUE, typed |-> TRUE, Code |-> code]
UntypedError == [isErr |-> TRUE, typed |-> FALSE, Code |-> 0]

IllegalFunctionError == TypedError(1)
IllegalAddressError == TypedError(2)
IllegalDataValueError == TypedError(3)
SlaveDeviceFailureError == TypedError(4)
SlaveDeviceBusyError == TypedError(6)

\* ------------------------------------------------------------------------
\* fixed-width helpers (encoding/binary, Go slices)
\* ------------------------------------------------------------------------
\* binary.BigEndian.Uint16 of two bytes
U16(hi, lo) == hi * 256 + lo

\* binary.Write(buf, binary.BigEndian, uint16(n))
PutU16(n) == << (n \div 256) % 256, n % 256 >>

\* b[lo:hi] of a slice whose capacity equals its length (0-based, hi exclusive)
Slice(b, lo, hi) == SubSeq(b, lo + 1, hi)

\* make([]byte, n): n zero bytes
RECURSIVE Zeros(_)
Zeros(n) ==
    IF n <= 0 THEN << >>
    ELSE LET half == Zeros(n \div 2)
         IN  half \o half \o (IF n % 2 = 1 THEN << 0 >> ELSE << >>)

Min(a, b) == IF a < b THEN a ELSE b

\* ------------------------------------------------------------------------
\* message.go: Value
\* ------------------------------------------------------------------------
\* Value.Set refusing what does not fit an int16
Value_SetFails_Int16(value) == value < -32768 \/ value > 32767

\* Value.Set: the error when value is outside -32768..65535
Value_SetFails(value) == value < -32768 \/ value > 65535

\* Value.Set on a Value holding v: the error, and what the Value holds afterwards
Value_Set(v, value) ==
    IF Value_SetFails(value) THEN [err |-> TRUE, v |-> v]
    ELSE [err |-> FALSE, v |-> value]

\* NewValue: Set on the zero Value
NewValue(v) == Value_Set(0, v)

\* Value.Get
Value_Get(v) == v

\* Value.MarshalBinary writing the low byte first
Value_MarshalBinary_LittleEndian(v) ==
    LET n == IF v < 0 THEN (v + 65536) % 65536 ELSE v % 65536
    IN  << n % 256, (n \div 256) % 256 >>

\* Value.MarshalBinary: int16(v) when negative, uint16(v) otherwise, big endian
Value_MarshalBinary(v) ==
    IF v < 0 THEN PutU16((v + 65536) % 65536) ELSE PutU16(v % 65536)

\* Value.UnmarshalBinary(b, signedness): exactly 2 bytes, else a format error;
\* signed 16-bit when Signed, unsigned 16-bit otherwise.
Value_UnmarshalBinary(b, signedness) ==
    IF Len(b) # 2 THEN [err |-> TRUE, v |-> 0]
    ELSE LET u == U16(b[1], b[2])
         IN  [err |-> FALSE,
              v |-> IF signedness = Signed /\ u >= 32768 THEN u - 65536 ELSE u]

\* ------------------------------------------------------------------------
\* message.go: MBAP, Request, Response
\* ------------------------------------------------------------------------
ZeroMBAP == [TransactionID |-> 0, ProtocolID |-> 0, Length |-> 0, UnitID |-> 0]

\* MBAP.UnmarshalBinary
MBAP_UnmarshalBinary(b) ==
    IF Len(b) # 7 THEN [err |-> TRUE, m |-> ZeroMBAP]
    ELSE [err |-> FALSE,
          m |-> [TransactionID |-> U16(b[1], b[2]),
                 ProtocolID |-> U16(b[3], b[4]),
                 Length |-> U16(b[5], b[6]),
                 UnitID |-> b[7]]]

\* MBAP.MarshalBinary writing ProtocolID before TransactionID
MBAP_MarshalBinary_ProtocolFirst(m) ==
    PutU16(m.ProtocolID) \o PutU16(m.TransactionID) \o PutU16(m.Length)
        \o << m.UnitID >>

\* MBAP.MarshalBinary
MBAP_MarshalBinary(m) ==
    PutU16(m.TransactionID) \o PutU16(m.ProtocolID) \o PutU16(m.Length)
        \o << m.UnitID >>

ZeroRequest == [MBAP |-> ZeroMBAP, FunctionCode |-> 0, Data |-> << >>]

\* Request.UnmarshalBinary. b[0:7] panics when cap(b) < 7 and b[7] when
\* len(b) < 8; the error return needs len(b[0:7]) # 7, which cannot happen.
Request_UnmarshalBinary(b) ==
    IF Len(b) < 7 THEN [panic |-> TRUE, err |-> FALSE, req |-> ZeroRequest]
    ELSE LET h == MBAP_UnmarshalBinary(Slice(b, 0, 7))
         IN  IF h.err THEN [panic |-> FALSE, err |-> TRUE, req |-> ZeroRequest]
             ELSE IF Len(b) < 8
                  THEN [panic |-> TRUE, err |-> FALSE, req |-> ZeroRequest]
                  ELSE [panic |-> FALSE, err |-> FALSE,
                        req |-> [MBAP |-> h.m, FunctionCode |-> b[8],
                                 Data |-> Slice(b, 8, Len(b))]]

\* NewResponse building a header of its own: TransactionID and Length only
NewResponse_FreshHeader(r, data) ==
    [MBAP |-> [ZeroMBAP EXCEPT !.TransactionID = r.MBAP.TransactionID,
                               !.Length = (Len(data) + 3) % 65536],
     FunctionCode |-> r.FunctionCode,
     Data |-> data,
     exception |-> FALSE]

\* NewResponse
NewResponse(r, data) ==
    [MBAP |-> [r.MBAP EXCEPT !.Length =
                  IF r.FunctionCode = WriteSingleCoil
                     \/ r.FunctionCode = WriteSingleRegister
                  THEN (Len(data) + 2) % 65536
                  ELSE (Len(data) + 3) % 65536],
     FunctionCode |-> r.FunctionCode,
     Data |-> data,
     exception |-> FALSE]

\* the fixed code NewErrorResponse uses for an error that is not an Error
DefaultExceptionCode == 5

\* NewErrorResponse without the type assertion: always the default code
NewErrorResponse_NoCode(r, err) ==
    [MBAP |-> [r.MBAP EXCEPT !.Length = 3],
     FunctionCode |-> (r.FunctionCode + 128) % 256,
     Data |-> << DefaultExceptionCode >>,
     exception |-> TRUE]

\* NewErrorResponse: uint8 addition of 0x80, the error's Code when typed
NewErrorResponse(r, err) ==
    [MBAP |-> [r.MBAP EXCEPT !.Length = 3],
     FunctionCode |-> (r.FunctionCode + 128) % 256,
     Data |-> IF err.typed THEN << err.Code >> ELSE << DefaultExceptionCode >>,
     exception |-> TRUE]

\* Response.MarshalBinary
Response_MarshalBinary(r) ==
    MBAP_MarshalBinary(r.MBAP) \o << r.FunctionCode >>
        \o (IF ~r.exception /\ r.FunctionCode # WriteSingleCoil
               /\ r.FunctionCode # WriteSingleRegister
            THEN << Len(r.Data) % 256 >> ELSE << >>)
        \o r.Data

\* ------------------------------------------------------------------------
\* handler.go: reduce, ReadHandler, WriteHandler
\* ------------------------------------------------------------------------
\* the swap loop of reduce: b with its elements in reverse order
RECURSIVE Reverse(_)
Reverse(s) == IF s = << >> THEN << >> ELSE Append(Reverse(Tail(s)), Head(s))

\* the inner loop of reduce over one group b (already reversed):
\* reduced[n] = reduced[n] << 1, then | 1 when the value is > 0
RECURSIVE PackGroup(_, _, _)
PackGroup(b, k, acc) ==
    IF k > Len(b) THEN acc
    ELSE PackGroup(b, k + 1, ((acc * 2) % 256) + (IF b[k] > 0 THEN 1 ELSE 0))

\* the outer loop of reduce, for i := 0; i <= len(values); i = i + 8.
\* values[i:end] shares the caller's array, so the reversal is kept in values.
RECURSIVE ReduceLoop(_, _, _, _)
ReduceLoop(values, reduced, n, i) ==
    IF i > Len(values) THEN [out |-> reduced, values |-> values]
    ELSE LET end == IF i + 8 > Len(values) - 1 THEN Len(values) ELSE i + 8
             b == Reverse(Slice(values, i, end))
             swapped == SubSeq(values, 1, i) \o b
                            \o SubSeq(values, end + 1, Len(values))
             packed == IF Len(b) = 0 THEN reduced
                       ELSE SubSeq(reduced, 1, n)
                            \o << PackGroup(b, 1, reduced[n + 1]) >>
                            \o SubSeq(reduced, n + 2, Len(reduced))
         IN  ReduceLoop(swapped, packed, n - 1, i + 8)

\* reduce filling its bytes front to back (n counting up from 0)
reduce_Forward(values) ==
    LET length == (Len(values) \div 8) + (IF Len(values) % 8 > 0 THEN 1 ELSE 0)
        r == ReduceLoop(values, Zeros(length), length - 1, 0)
    IN  [out |-> Reverse(r.out), values |-> r.values]

\* reduce(values): the packed bytes, and the caller's slice as reduce leaves it
reduce(values) ==
    LET length == (Len(values) \div 8) + (IF Len(values) % 8 > 0 THEN 1 ELSE 0)
    IN  ReduceLoop(values, Zeros(length), length - 1, 0)

\* the loop of ReadHandler.ServeModbus over values: data = append(data, b...)
\* with b the 2 bytes of each value in turn (evaluated by halves)
RECURSIVE MarshalValues(_)
MarshalValues(values) ==
    IF values = << >> THEN << >>
    ELSE IF Len(values) = 1 THEN Value_MarshalBinary(values[1])
    ELSE LET mid == Len(values) \div 2
         IN  MarshalValues(SubSeq(values, 1, mid))
                \o MarshalValues(SubSeq(values, mid + 1, Len(values)))

\* What one ServeModbus call did: whether it panicked, whether and with what
\* the business callback was invoked, and the responses handed to respond().
Served(panic, called, start, arg, resps) ==
    [panic |-> panic, called |-> called, start |-> start, arg |-> arg,
     resps |-> resps]

\* ReadHandler.ServeModbus; cb is the callback's result [err, values]
ReadHandler_ServeModbus(req, cb) ==
    IF Len(req.Data) < 4 THEN Served(TRUE, FALSE, 0, << >>, << >>)
    ELSE LET start == U16(req.Data[1], req.Data[2])
             quantity == U16(req.Data[3], req.Data[4])
         IN  IF cb.err.isErr
             THEN Served(FALSE, TRUE, start, << quantity >>,
                         << NewErrorResponse(req, cb.err) >>)
             ELSE LET data == IF req.FunctionCode = ReadCoils
                                 \/ req.FunctionCode = ReadDiscreteInputs
                              THEN reduce(cb.values).out
                              ELSE MarshalValues(cb.values)
                  IN  Served(FALSE, TRUE, start, << quantity >>,
                             << NewResponse(req, data) >>)

\* Decoded(panic, err, values): the result of a handleWrite* method
Decoded(panic, err, values) == [panic |-> panic, err |-> err, values |-> values]

\* WriteHandler.handleWriteSingleCoil
handleWriteSingleCoil(req) ==
    IF Len(req.Data) < 4 THEN Decoded(TRUE, NilError, << >>)
    ELSE LET d == Value_UnmarshalBinary(Slice(req.Data, 2, 4), Unsigned)
         IN  IF d.err THEN Decoded(FALSE, UntypedError, << 0 >>)
             ELSE IF d.v # 0
                  THEN IF Value_SetFails(1)
                       THEN Decoded(FALSE, IllegalDataValueError, << 0 >>)
                       ELSE Decoded(FALSE, NilError, << 1 >>)
                  ELSE Decoded(FALSE, NilError, << d.v >>)

\* WriteHandler.handleWriteSingleRegister
handleWriteSingleRegister(req, signedness) ==
    IF Len(req.Data) < 4 THEN Decoded(TRUE, NilError, << >>)
    ELSE LET d == Value_UnmarshalBinary(Slice(req.Data, 2, 4), signedness)
         IN  IF d.err THEN Decoded(FALSE, UntypedError, << >>)
             ELSE Decoded(FALSE, NilError, << d.v >>)

\* the decode loop of handleWriteMultipleRegisters,
\* for i := 0; i < quantity*2; i += 2
RECURSIVE DecodeRegisters(_, _, _, _, _)
DecodeRegisters(req, signedness, quantity, i, values) ==
    IF i >= quantity * 2 THEN Decoded(FALSE, NilError, values)
    ELSE LET d == Value_UnmarshalBinary(Slice(req.Data, 5 + i, 5 + i + 2), signedness)
         IN  IF d.err THEN Decoded(FALSE, UntypedError, values)
             ELSE DecodeRegisters(req, signedness, quantity, i + 2,
                                  Append(values, d.v))

\* handleWriteMultipleRegisters with the values expected at offset 4
handleWriteMultipleRegisters_Offset4(req, signedness) ==
    IF Len(req.Data) < 4 THEN Decoded(TRUE, NilError, << >>)
    ELSE LET quantity == U16(req.Data[3], req.Data[4])
         IN  IF Len(req.Data) # 4 + (quantity * 2)
             THEN Decoded(FALSE, IllegalDataValueError, << >>)
             ELSE DecodeRegisters(req, signedness, quantity, 0, << >>)

\* WriteHandler.handleWriteMultipleRegisters
handleWriteMultipleRegisters(req, signedness) ==
    IF Len(req.Data) < 4 THEN Decoded(TRUE, NilError, << >>)
    ELSE LET quantity == U16(req.Data[3], req.Data[4])
         IN  IF Len(req.Data) # 5 + (quantity * 2)
             THEN Decoded(FALSE, IllegalDataValueError, << >>)
             ELSE DecodeRegisters(req, signedness, quantity, 0, << >>)

\* WriteHandler.ServeModbus; cbErr is the error the callback returns if called
WriteHandler_ServeModbus(req, signedness, cbErr) ==
    IF Len(req.Data) < 2 THEN Served(TRUE, FALSE, 0, << >>, << >>)
    ELSE LET start == U16(req.Data[1], req.Data[2])
             d == CASE req.FunctionCode = WriteSingleCoil ->
                         handleWriteSingleCoil(req)
                    [] req.FunctionCode = WriteSingleRegister ->
                         handleWriteSingleRegister(req, signedness)
                    [] req.FunctionCode = WriteMultipleRegisters ->
                         handleWriteMultipleRegisters(req, signedness)
                    [] OTHER -> Decoded(FALSE, NilError, << >>)
         IN  IF d.panic THEN Served(TRUE, FALSE, start, << >>, << >>)
             ELSE IF d.err.isErr
             THEN Served(FALSE, FALSE, start, << >>,
                         << NewErrorResponse(req, d.err) >>)
             ELSE IF cbErr.isErr
             THEN Served(FALSE, TRUE, start, d.values,
                         << NewErrorResponse(req, cbErr) >>)
             ELSE IF Len(req.Data) < 4
             THEN Served(TRUE, TRUE, start, d.values, << >>)
             ELSE Served(FALSE, TRUE, start, d.values,
                         << NewResponse(req, Slice(req.Data, 0, 4)) >>)

\* ------------------------------------------------------------------------
\* bounds of the model
\* ------------------------------------------------------------------------
\* messages the peers send, over all connections
MaxMsgs == 2
\* ticks of the clock (SpecTimeout)
MaxTime == 3

\* the duration given to SetTimeout when one is set
TimeoutD == 2

\* bufio.NewReader's buffer size
BufSize == 4096

\* the connections the listener hands out, in the order of their Accept
Conns == {1, 2}

\* ------------------------------------------------------------------------
\* the peers: what a client may put on the wire
\* ------------------------------------------------------------------------
\* a framed message: MBAP with Length = 2 + len(data), function code, data
Frame(tid, unit, fc, data) ==
    PutU16(tid) \o << 0, 0 >> \o PutU16(Len(data) + 2) \o << unit, fc >> \o data

\* a read request, a write request, a request with a function code >= 0x80,
\* a request whose payload is 2 bytes, and messages whose Length is 1 and 0
PeerMessages(tid) ==
    { Frame(tid, 1, ReadHoldingRegisters, << 0, 5, 0, 2 >>),
      Frame(tid, 1, WriteSingleRegister, << 0, 1, 243, 136 >>),
      Frame(tid, 1, 131, << 0, 0, 0, 1 >>),
      Frame(tid, 1, ReadHoldingRegisters, << 0, 5 >>),
      PutU16(tid) \o << 0, 0, 0, 1, 1 >>,
      PutU16(tid) \o << 0, 0, 0, 0 >> }

\* the message a peer may break off in the middle of
LastMessage == Frame(9, 1, ReadHoldingRegisters, << 0, 5 >>)

\* the function codes and handlers the application registers
HandleCodes == { ReadHoldingRegisters, WriteSingleRegister }
ReadH == [kind |-> "read", signedness |-> Unsigned]
WriteH == [kind |-> "write", signedness |-> Signed]
NoHandler == [kind |-> "none", signedness |-> Unsigned]
Handlers == { ReadH, WriteH }

\* what a business callback may return
ReadResults ==
    { [err |-> NilError, values |-> << 1, -3192 >>],
      [err |-> IllegalAddressError, values |-> << >>],
      [err |-> UntypedError, values |-> << >>] }
WriteResults == { NilError, SlaveDeviceBusyError, UntypedError }

\* ------------------------------------------------------------------------
\* state
\* ------------------------------------------------------------------------
VARIABLES
    srv,          \* "setup", "listening" (Listen's loop runs), "crashed" (a panic)
    handlers,     \* Server.handlers: function code -> Handler
    lastReg,      \* per function code, the handler of the latest Handle call
    timeout,      \* Server.timeout
    crashBy,      \* where the panic that ended the process was raised
    acceptFail,   \* an Accept call returned an error
    acceptLog,    \* Listen logged an accept error
    now,          \* the clock
    env,          \* the network: whether it splits writes into smaller chunks,
                  \* and how many clients connect
    conns,        \* per connection: the worker, its bufio.Reader, the peer
    call          \* a call into the codec or a handler made directly, as the
                  \* package's tests make them: its receiver, arguments, result

vars == << srv, handlers, lastReg, timeout, crashBy, acceptFail, acceptLog,
           now, env, conns, call >>

\* no direct call is made
NoCall == [op |-> "none"]

NoWrite == [data |-> << >>, ok |-> TRUE]

InitConn ==
    [pc |-> "idle",        \* idle, read (in readMessage), exec, closed, panicked
     wire |-> << >>,       \* bytes the peer wrote that have not arrived yet
     peerClosed |-> FALSE, \* the peer closed its side
     trunc |-> FALSE,      \* the peer closed in the middle of a message
     rbuf |-> << >>,       \* bytes buffered in the bufio.Reader
     pending |-> << >>,    \* complete messages sent and not yet returned
     nsent |-> 0,          \* complete messages the peer sent
     \* the exchange in progress, from the peer's request on:
     msg |-> << >>,        \* the buffer readMessage returned last
     expect |-> << >>,     \* the message the peer sent at that position
     nread |-> 0,          \* buffers readMessage returned
     nwrite |-> 0,         \* calls of conn.Write
     lastWrite |-> NoWrite,\* the conn.Write for the request read last
     cb |-> NilError,      \* what the callback returned for the request served last
     by |-> NoHandler,     \* the handler the request served last was passed to
     bad |-> FALSE,        \* the worker met a malformed request
     ret |-> "none",       \* what handleConn returned: nil or error
     cause |-> "none",     \* why handleConn returned
     closes |-> 0,         \* calls of conn.Close
     deadline |-> 0,       \* the read deadline, when timeout # 0
     waitStart |-> 0,      \* when the worker began to wait for the next request
     tExit |-> 0]          \* when handleConn returned

\* nothing has happened yet
Quiet ==
    /\ crashBy = "none"
    /\ acceptFail = FALSE
    /\ acceptLog = FALSE
    /\ now = 0
    /\ conns = [c \in Conns |-> InitConn]

\* NewServer: no handlers, timeout 0
InitServer ==
    /\ srv = "setup"
    /\ handlers = [k \in {} |-> NoHandler]
    /\ lastReg = [k \in {} |-> NoHandler]
    /\ timeout = 0
    /\ Quiet

Init == InitServer /\ env = [split |-> FALSE, clients |-> 2] /\ call = NoCall

Alive == srv = "listening"

\* the messages sent so far over all connections
RECURSIVE SumSent(_)
SumSent(S) ==
    IF S = {} THEN 0
    ELSE LET c == CHOOSE x \in S : TRUE
         IN  conns[c].nsent + SumSent(S \ {c})

\* ------------------------------------------------------------------------
\* setup: Handle, SetTimeout, then Listen
\* ------------------------------------------------------------------------
\* Server.Handle: s.handlers[functionCode] = h
HandleUpdate(hs, code, h) ==
    [k \in (DOMAIN hs) \cup {code} |-> IF k = code THEN h ELSE hs[k]]

Handle(code, h) ==
    /\ srv = "setup"
    /\ handlers' = HandleUpdate(handlers, code, h)
    /\ lastReg' = [k \in (DOMAIN lastReg) \cup {code} |->
                      IF k = code THEN h ELSE lastReg[k]]
    /\ UNCHANGED << srv, timeout, crashBy, acceptFail, acceptLog, now, env, conns >>
    /\ UNCHANGED call

\* Server.SetTimeout
SetTimeout(t) ==
    /\ srv = "setup"
    /\ timeout # t
    /\ timeout' = t
    /\ UNCHANGED << srv, handlers, lastReg, crashBy, acceptFail, acceptLog,
                    now, env, conns >>
    /\ UNCHANGED call

\* Server.Listen is called
Listen ==
    /\ srv = "setup"
    /\ srv' = "listening"
    /\ UNCHANGED << handlers, lastReg, timeout, crashBy, acceptFail, acceptLog,
                    now, env, conns >>
    /\ UNCHANGED call

\* ------------------------------------------------------------------------
\* Server.Listen: one iteration of the accept loop
\* ------------------------------------------------------------------------
Set(c, r) == [conns EXCEPT ![c] = r]

\* Accept returns a connection: the deadline is set when timeout # 0,
\* and the worker goroutine starts in handleConn.
Accept(c) ==
    /\ Alive
    /\ c <= env.clients
    /\ conns[c].pc = "idle"
    /\ \A k \in Conns : k < c => conns[k].pc # "idle"
    /\ conns' = Set(c, [conns[c] EXCEPT !.pc = "read",
                                        !.deadline = IF timeout # 0
                                                     THEN now + timeout ELSE 0,
                                        !.waitStart = now])
    /\ UNCHANGED << srv, handlers, lastReg, timeout, crashBy, acceptFail,
                    acceptLog, now, env >>
    /\ UNCHANGED call

\* Accept returns (nil, err). conn.SetReadDeadline runs before err is looked
\* at: with timeout # 0 it is a method call on a nil interface, a panic.
AcceptError ==
    /\ Alive
    /\ acceptFail' = TRUE
    /\ IF timeout # 0
       THEN /\ srv' = "crashed"
            /\ crashBy' = "accept"
            /\ UNCHANGED acceptLog
       ELSE /\ acceptLog' = TRUE
            /\ UNCHANGED << srv, crashBy >>
    /\ UNCHANGED << handlers, lastReg, timeout, now, env, conns >>
    /\ UNCHANGED call

\* ------------------------------------------------------------------------
\* the peer of a connection
\* ------------------------------------------------------------------------
\* the peer writes one complete message, its transaction id the number of
\* the message on this connection. A client sends its next request once the
\* server has taken up everything it sent before.
PeerSend(c) ==
    /\ Alive
    /\ conns[c].pc = "read"
    /\ ~conns[c].peerClosed
    /\ conns[c].wire = << >> /\ conns[c].rbuf = << >>
    /\ SumSent(Conns) < MaxMsgs
    /\ \E m \in PeerMessages(conns[c].nsent + 1) :
          conns' = Set(c, [conns[c] EXCEPT !.wire = @ \o m,
                                           !.pending = Append(@, m),
                                           !.nsent = @ + 1,
                                           !.msg = << >>, !.expect = << >>,
                                           !.lastWrite = NoWrite,
                                           !.cb = NilError, !.by = NoHandler])
    /\ UNCHANGED << srv, handlers, lastReg, timeout, crashBy, acceptFail,
                    acceptLog, now, env >>
    /\ UNCHANGED call

\* the peer closes its side once the server has taken up what it sent, after
\* the first k bytes of one more message (k = 0: at a message boundary)
PeerClose(c) ==
    /\ Alive
    /\ conns[c].pc = "read"
    /\ ~conns[c].peerClosed
    /\ conns[c].wire = << >> /\ conns[c].rbuf = << >>
    /\ \E k \in (IF env.split THEN 0..(Len(LastMessage) - 1) ELSE {0}) :
          conns' = Set(c, [conns[c] EXCEPT
                      !.wire = @ \o SubSeq(LastMessage, 1, k),
                      !.peerClosed = TRUE,
                      !.trunc = (k > 0)])
    /\ UNCHANGED << srv, handlers, lastReg, timeout, crashBy, acceptFail,
                    acceptLog, now, env >>
    /\ UNCHANGED call

\* ------------------------------------------------------------------------
\* Server.handleConn, Server.readMessage
\* ------------------------------------------------------------------------
\* handleConn returns, and the goroutine logs the error and closes conn
Return(r, ret, cause) ==
    [r EXCEPT !.pc = "closed", !.ret = ret, !.cause = cause,
              !.closes = @ + 1, !.tExit = now]

\* a read with a deadline fails once the deadline has passed
Expired(c) == timeout # 0 /\ now >= conns[c].deadline

\* the sizes of the chunk one conn.Read may deliver
ChunkSizes(c) ==
    LET room == Min(Len(conns[c].wire), BufSize - Len(conns[c].rbuf))
    IN  IF env.split THEN 1..room ELSE {room}

\* r.Peek(6) needs more bytes: one conn.Read of the bufio.Reader delivers them
FillData(c) ==
    /\ Alive
    /\ conns[c].pc = "read"
    /\ Len(conns[c].rbuf) < 6
    /\ ~Expired(c)
    /\ conns[c].wire # << >>
    /\ \E k \in ChunkSizes(c) :
          conns' = Set(c, [conns[c] EXCEPT
                      !.rbuf = @ \o SubSeq(conns[c].wire, 1, k),
                      !.wire = SubSeq(@, k + 1, Len(@))])
    /\ UNCHANGED << srv, handlers, lastReg, timeout, crashBy, acceptFail,
                    acceptLog, now, env >>
    /\ UNCHANGED call

\* conn.Read returns io.EOF: Peek returns it with the bytes it has,
\* readMessage returns it unwrapped and handleConn returns nil
FillEOF(c) ==
    /\ Alive
    /\ conns[c].pc = "read"
    /\ Len(conns[c].rbuf) < 6
    /\ ~Expired(c)
    /\ conns[c].wire = << >>
    /\ conns[c].peerClosed
    /\ conns' = Set(c, Return(conns[c], "nil", "eof"))
    /\ UNCHANGED << srv, handlers, lastReg, timeout, crashBy, acceptFail,
                    acceptLog, now, env >>
    /\ UNCHANGED call

\* conn.Read fails with another error: handleConn returns an error
FillError(c) ==
    /\ Alive
    /\ conns[c].pc = "read"
    /\ Len(conns[c].rbuf) < 6
    /\ ~Expired(c)
    /\ conns' = Set(c, Return(conns[c], "error", "readerr"))
    /\ UNCHANGED << srv, handlers, lastReg, timeout, crashBy, acceptFail,
                    acceptLog, now, env >>
    /\ UNCHANGED call

\* conn.Read fails because the read deadline has passed
FillTimeout(c) ==
    /\ Alive
    /\ conns[c].pc = "read"
    /\ Len(conns[c].rbuf) < 6
    /\ Expired(c)
    /\ conns' = Set(c, Return(conns[c], "error", "timeout"))
    /\ UNCHANGED << srv, handlers, lastReg, timeout, crashBy, acceptFail,
                    acceptLog, now, env >>
    /\ UNCHANGED call

\* 6 + length in uint16
MessageSize(b) == (6 + U16(b[5], b[6])) % 65536

\* buf after r.Read(buf): bufio copies what it has buffered, at most len(buf),
\* and returns without error; the rest of buf keeps its zeros
ReadInto(size, buffered) ==
    LET n == Min(size, Len(buffered))
    IN  SubSeq(buffered, 1, n) \o Zeros(size - n)

\* Peek(6) succeeds; the rest of readMessage and Request.UnmarshalBinary
ReadMessage(c) ==
    /\ Alive
    /\ conns[c].pc = "read"
    /\ Len(conns[c].rbuf) >= 6
    /\ LET r == conns[c]
           size == MessageSize(r.rbuf)
           buf == ReadInto(size, r.rbuf)
           rest == SubSeq(r.rbuf, Min(size, Len(r.rbuf)) + 1, Len(r.rbuf))
           dec == Request_UnmarshalBinary(buf)
           got == [r EXCEPT !.rbuf = rest, !.msg = buf, !.nread = @ + 1,
                            !.expect = IF r.pending = << >> THEN << >>
                                       ELSE Head(r.pending),
                            !.pending = IF r.pending = << >> THEN << >>
                                        ELSE Tail(r.pending),
                            !.cb = NilError, !.by = NoHandler,
                            !.lastWrite = NoWrite,
                            !.bad = dec.panic \/ dec.err]
       IN  IF dec.panic
           THEN /\ conns' = Set(c, [got EXCEPT !.pc = "panicked"])
                /\ srv' = "crashed"
                /\ crashBy' = "decode"
           ELSE IF dec.err
           THEN /\ conns' = Set(c, Return(got, "error", "decode"))
                /\ UNCHANGED << srv, crashBy >>
           ELSE /\ conns' = Set(c, [got EXCEPT !.pc = "exec"])
                /\ UNCHANGED << srv, crashBy >>
    /\ UNCHANGED << handlers, lastReg, timeout, acceptFail, acceptLog, now, env >>
    /\ UNCHANGED call

\* ------------------------------------------------------------------------
\* Server.executeAndRespond
\* ------------------------------------------------------------------------
\* the handler lastReg for the request's function code serves it; without
\* one, the IllegalFunction response is built
Dispatch(hs, req, cbr, cbw) ==
    IF req.FunctionCode \in DOMAIN hs
    THEN IF hs[req.FunctionCode].kind = "read"
         THEN ReadHandler_ServeModbus(req, cbr)
         ELSE WriteHandler_ServeModbus(req, hs[req.FunctionCode].signedness, cbw)
    ELSE Served(FALSE, FALSE, 0, << >>,
                << NewErrorResponse(req, IllegalFunctionError) >>)

\* what executeAndRespond returns after a conn.Write that worked (ok) or not:
\* respond() only logs a failed write, the IllegalFunction path returns it
ExecuteFails(hs, req, ok) == req.FunctionCode \notin DOMAIN hs /\ ~ok

\* executeAndRespond for the request just decoded, with the callback's result
\* and the fate of conn.Write chosen by the environment
Exec(c) ==
    /\ Alive
    /\ conns[c].pc = "exec"
    /\ \E cbr \in ReadResults, cbw \in WriteResults, ok \in BOOLEAN :
          LET r == conns[c]
              req == Request_UnmarshalBinary(r.msg).req
              has == req.FunctionCode \in DOMAIN handlers
              h == IF has THEN handlers[req.FunctionCode] ELSE NoHandler
              served == Dispatch(handlers, req, cbr, cbw)
              cbErr == IF ~served.called THEN NilError
                       ELSE IF h.kind = "read" THEN cbr.err ELSE cbw
              seen == [r EXCEPT !.by = h, !.cb = cbErr,
                                !.bad = has /\ Len(req.Data) < 4]
          IN  IF served.panic
              THEN /\ conns' = Set(c, [seen EXCEPT !.pc = "panicked"])
                   /\ srv' = "crashed"
                   /\ crashBy' = "handler"
              ELSE LET data == Response_MarshalBinary(served.resps[1])
                       wrote == [seen EXCEPT !.nwrite = @ + 1,
                                             !.lastWrite = [data |-> data, ok |-> ok]]
                   IN  /\ conns' = Set(c,
                             IF ExecuteFails(handlers, req, ok)
                             THEN Return(wrote, "error", "write")
                             ELSE [wrote EXCEPT !.pc = "read", !.waitStart = now])
                       /\ UNCHANGED << srv, crashBy >>
    /\ UNCHANGED << handlers, lastReg, timeout, acceptFail, acceptLog, now, env >>
    /\ UNCHANGED call

\* time passes
Tick ==
    /\ Alive
    /\ now < MaxTime
    /\ now' = now + 1
    /\ UNCHANGED << srv, handlers, lastReg, timeout, crashBy, acceptFail,
                    acceptLog, env, conns >>
    /\ UNCHANGED call

\* ------------------------------------------------------------------------
\* specifications
\* ------------------------------------------------------------------------
\* what the peers, the network and the workers do
Serve ==
    \/ \E c \in Conns : Accept(c)
    \/ \E c \in Conns : PeerSend(c)
    \/ \E c \in Conns : PeerClose(c)
    \/ \E c \in Conns : FillData(c)
    \/ \E c \in Conns : FillEOF(c)
    \/ \E c \in Conns : FillError(c)
    \/ \E c \in Conns : ReadMessage(c)
    \/ \E c \in Conns : Exec(c)

Next ==
    \/ \E code \in HandleCodes, h \in Handlers : Handle(code, h)
    \/ Listen
    \/ Serve

\* the server with the handlers the application registers and two clients;
\* the network delivers what is in flight whole
Spec == Init /\ [][Next]_vars

\* a server without handlers and one client, over a network that splits the
\* stream into arbitrary chunks
InitFraming ==
    InitServer /\ env = [split |-> TRUE, clients |-> 1] /\ call = NoCall
NextFraming ==
    \/ Listen
    \/ Serve
SpecFraming == InitFraming /\ [][NextFraming]_vars

\* a server without handlers, with or without a timeout, one client, a clock
InitTimeout ==
    InitServer /\ env = [split |-> FALSE, clients |-> 1] /\ call = NoCall
NextTimeout ==
    \/ SetTimeout(TimeoutD)
    \/ Listen
    \/ AcceptError
    \/ Serve
    \/ Tick
    \/ \E c \in Conns : FillTimeout(c)
SpecTimeout == InitTimeout /\ [][NextTimeout]_vars

\* ------------------------------------------------------------------------
\* direct calls of WriteHandler.ServeModbus, as TestWriteHandler makes them
\* ------------------------------------------------------------------------
\* bytes of payload after the first 4 that a request may carry
MaxTail == 5

\* the function codes a WriteHandler decodes
WriteCodes == { WriteSingleCoil, WriteSingleRegister, WriteMultipleRegisters }

\* bytes 2..3 of the payload: the value of a single write, the quantity of a
\* multiple write
ValueFields == { << 0, 0 >>, << 0, 1 >>, << 0, 2 >>, << 243, 136 >> }

\* the bytes the payload is extended with
TailBytes == { 0, 136, 243 }

\* the header of the requests
CallMBAP == [TransactionID |-> 258, ProtocolID |-> 0, Length |-> 6, UnitID |-> 1]

\* a write request with a payload of 4 bytes: start address 1, then the field
InitWrite ==
    /\ InitServer
    /\ env = [split |-> FALSE, clients |-> 0]
    /\ \E fc \in WriteCodes, f \in ValueFields :
          call = [op |-> "Request",
                  req |-> [MBAP |-> CallMBAP, FunctionCode |-> fc,
                           Data |-> << 0, 1 >> \o f]]

\* one more byte of payload
AppendData(b) ==
    /\ call.op = "Request"
    /\ Len(call.req.Data) < 4 + MaxTail
    /\ call' = [call EXCEPT !.req.Data = Append(@, b)]
    /\ UNCHANGED << srv, handlers, lastReg, timeout, crashBy, acceptFail,
                    acceptLog, now, env, conns >>

\* NewWriteHandler(callback, s).ServeModbus(w, req), the callback returning e;
\* wrote is what w received
ServeWrite(s, e) ==
    /\ call.op = "Request"
    /\ LET served == WriteHandler_ServeModbus(call.req, s, e)
       IN  call' = [op |-> "WriteHandler.ServeModbus",
                    req |-> call.req,
                    signedness |-> s,
                    cb |-> e,
                    served |-> served,
                    wrote |-> IF served.panic THEN << >>
                              ELSE Response_MarshalBinary(served.resps[1])]
    /\ UNCHANGED << srv, handlers, lastReg, timeout, crashBy, acceptFail,
                    acceptLog, now, env, conns >>

NextWrite ==
    \/ \E b \in TailBytes : AppendData(b)
    \/ \E s \in {Unsigned, Signed}, e \in WriteResults : ServeWrite(s, e)
SpecWrite == InitWrite /\ [][NextWrite]_vars

\* ------------------------------------------------------------------------
\* direct calls of NewResponse, NewErrorResponse and ReadHandler.ServeModbus,
\* as TestResponse and TestReadHandler make them
\* ------------------------------------------------------------------------
\* n copies of x
RECURSIVE Repeat(_, _)
Repeat(x, n) ==
    IF n <= 0 THEN << >>
    ELSE LET half == Repeat(x, n \div 2)
         IN  half \o half \o (IF n % 2 = 1 THEN << x >> ELSE << >>)

\* the numbers of data bytes given to NewResponse
DataLens == { 0, 1, 2, 4, 255, 256, 65532, 65533 }

\* the numbers of values a read callback returns, for coils and for registers
CoilCounts == { 0, 1, 8, 9, 16, 17 }
RegisterCounts == { 0, 1, 2, 127, 128 }

\* the function codes a ReadHandler is registered for
ReadCodes == { ReadCoils, ReadDiscreteInputs, ReadHoldingRegisters,
               ReadInputRegisters }

\* the errors given to NewErrorResponse
ResponseErrors == { IllegalFunctionError, SlaveDeviceBusyError, UntypedError }

\* a request with any function code; its payload is start 1, quantity 2
InitResponse ==
    /\ InitServer
    /\ env = [split |-> FALSE, clients |-> 0]
    /\ \E fc \in 0..255 :
          call = [op |-> "Request",
                  req |-> [MBAP |-> CallMBAP, FunctionCode |-> fc,
                           Data |-> << 0, 1, 0, 2 >>]]

\* NewErrorResponse(req, e).MarshalBinary()
CallNewErrorResponse(e) ==
    /\ call.op = "Request"
    /\ LET resp == NewErrorResponse(call.req, e)
       IN  call' = [op |-> "NewErrorResponse", req |-> call.req, err |-> e,
                    resp |-> resp, wrote |-> Response_MarshalBinary(resp)]
    /\ UNCHANGED << srv, handlers, lastReg, timeout, crashBy, acceptFail,
                    acceptLog, now, env, conns >>

\* NewResponse(req, data).MarshalBinary() for n bytes of data
CallNewResponse(n) ==
    /\ call.op = "Request"
    /\ LET resp == NewResponse(call.req, Repeat(1, n))
       IN  call' = [op |-> "NewResponse", req |-> call.req, n |-> n,
                    wrote |-> Response_MarshalBinary(resp)]
    /\ UNCHANGED << srv, handlers, lastReg, timeout, crashBy, acceptFail,
                    acceptLog, now, env, conns >>

\* NewReadHandler(callback).ServeModbus(w, req), the callback returning k
\* values and no error; wrote is what w received
ServeRead(k) ==
    /\ call.op = "Request"
    /\ call.req.FunctionCode \in ReadCodes
    /\ k \in (IF call.req.FunctionCode \in {ReadCoils, ReadDiscreteInputs}
              THEN CoilCounts ELSE RegisterCounts)
    /\ LET served == ReadHandler_ServeModbus(call.req,
                        [err |-> NilError, values |-> Repeat(1, k)])
       IN  call' = [op |-> "ReadHandler.ServeModbus", req |-> call.req,
                    returned |-> k,
                    wrote |-> Response_MarshalBinary(served.resps[1])]
    /\ UNCHANGED << srv, handlers, lastReg, timeout, crashBy, acceptFail,
                    acceptLog, now, env, conns >>

NextResponse ==
    \/ \E e \in ResponseErrors : CallNewErrorResponse(e)
    \/ \E n \in DataLens : CallNewResponse(n)
    \/ \E k \in CoilCounts \cup RegisterCounts : ServeRead(k)
SpecResponse == InitResponse /\ [][NextResponse]_vars

\* ------------------------------------------------------------------------
\* direct calls of reduce, as TestReduce makes them
\* ------------------------------------------------------------------------
\* cells appended one by one to the slice given to reduce
MaxCells == 9

\* what a cell holds: a negative value, 0, a positive value
CellValues == { -1, 0, 1 }

\* the first 8 cells of the slice, if it starts with a full group
FirstGroup == << 1, 0, 0, 0, 0, 0, 0, 0 >>

InitReduce ==
    /\ InitServer
    /\ env = [split |-> FALSE, clients |-> 0]
    /\ \E base \in { << >>, FirstGroup } :
          call = [op |-> "Values", base |-> Len(base), values |-> base]

\* one more cell
AppendValue(v) ==
    /\ call.op = "Values"
    /\ Len(call.values) < call.base + MaxCells
    /\ call' = [call EXCEPT !.values = Append(@, v)]
    /\ UNCHANGED << srv, handlers, lastReg, timeout, crashBy, acceptFail,
                    acceptLog, now, env, conns >>

\* reduce(values): out is the result, after is the caller's slice afterwards
CallReduce ==
    /\ call.op = "Values"
    /\ LET r == reduce(call.values)
       IN  call' = [op |-> "reduce", values |-> call.values,
                    out |-> r.out, after |-> r.values]
    /\ UNCHANGED << srv, handlers, lastReg, timeout, crashBy, acceptFail,
                    acceptLog, now, env, conns >>

NextReduce ==
    \/ \E v \in CellValues : AppendValue(v)
    \/ CallReduce
SpecReduce == InitReduce /\ [][NextReduce]_vars

\* ------------------------------------------------------------------------
\* a slice of coils the application keeps and hands out again: reduce called
\* on it twice, and a ReadHandler whose callback returns it for every request
\* ------------------------------------------------------------------------
\* what a coil holds
CoilValues == { 0, 1 }

\* the requests served with the same slice
MaxServes == 2

\* reduce(values) once more, on the slice as the first call left it
CallReduceAgain ==
    /\ call.op = "reduce"
    /\ LET r == reduce(call.after)
       IN  call' = [op |-> "reduce again", values |-> call.values,
                    out |-> call.out, after |-> call.after,
                    out2 |-> r.out, after2 |-> r.values]
    /\ UNCHANGED << srv, handlers, lastReg, timeout, crashBy, acceptFail,
                    acceptLog, now, env, conns >>

\* a ReadCoils request for all the coils of the slice
CoilsRequest(n) ==
    [MBAP |-> CallMBAP, FunctionCode |-> ReadCoils,
     Data |-> << 0, 0 >> \o PutU16(n)]

\* NewReadHandler(callback).ServeModbus(w, req) with a callback that returns
\* the slice it keeps: backing is that slice as the calls so far left it,
\* wrote is what w received, call after call
ServeCoils ==
    /\ \/ call.op = "Values"
       \/ call.op = "ReadCoils" /\ Len(call.wrote) < MaxServes
    /\ LET backing == IF call.op = "Values" THEN call.values ELSE call.backing
           sofar == IF call.op = "Values" THEN << >> ELSE call.wrote
           req == CoilsRequest(Len(call.values))
           served == ReadHandler_ServeModbus(req,
                        [err |-> NilError, values |-> backing])
       IN  call' = [op |-> "ReadCoils", values |-> call.values,
                    backing |-> reduce(backing).values,
                    wrote |-> Append(sofar,
                                Response_MarshalBinary(served.resps[1]))]
    /\ UNCHANGED << srv, handlers, lastReg, timeout, crashBy, acceptFail,
                    acceptLog, now, env, conns >>

NextCoils ==
    \/ \E v \in CoilValues : AppendValue(v)
    \/ CallReduce
    \/ CallReduceAgain
    \/ ServeCoils
SpecCoils == InitReduce /\ [][NextCoils]_vars

\* ------------------------------------------------------------------------
\* direct calls on a Value: NewValue, Set, Get, UnmarshalBinary, MarshalBinary
\* ------------------------------------------------------------------------
\* the integers given to NewValue and Set
IntSamples == { -32769, -32768, -3192, -1, 0, 1, 32767, 32768, 62344, 65535,
                65536 }

\* the bytes of the 2-byte patterns given to UnmarshalBinary
PatternBytes == { 0, 1, 127, 128, 136, 243, 255 }

\* var v Value
InitValue ==
    /\ InitServer
    /\ env = [split |-> FALSE, clients |-> 0]
    /\ call = [op |-> "Value", v |-> 0]

\* v, err := NewValue(x)
CallNewValue(x) ==
    /\ call' = [op |-> "NewValue", arg |-> x, err |-> NewValue(x).err,
                v |-> Value_Get(NewValue(x).v)]
    /\ UNCHANGED << srv, handlers, lastReg, timeout, crashBy, acceptFail,
                    acceptLog, now, env, conns >>

\* err := v.Set(x); prev is what v held before
CallSet(x) ==
    /\ call' = [op |-> "Set", arg |-> x, prev |-> call.v,
                err |-> Value_Set(call.v, x).err,
                v |-> Value_Get(Value_Set(call.v, x).v)]
    /\ UNCHANGED << srv, handlers, lastReg, timeout, crashBy, acceptFail,
                    acceptLog, now, env, conns >>

\* err := v.UnmarshalBinary(<<hi, lo>>, s)
CallUnmarshalValue(hi, lo, s) ==
    /\ LET d == Value_UnmarshalBinary(<< hi, lo >>, s)
       IN  call' = [op |-> "UnmarshalBinary", bytes |-> << hi, lo >>,
                    signedness |-> s, err |-> d.err, v |-> Value_Get(d.v)]
    /\ UNCHANGED << srv, handlers, lastReg, timeout, crashBy, acceptFail,
                    acceptLog, now, env, conns >>

\* b, _ := v.MarshalBinary(); bytes is what v was decoded from, if it was
CallMarshalValue ==
    /\ call.op # "MarshalBinary"
    /\ call' = [op |-> "MarshalBinary",
                bytes |-> IF call.op = "UnmarshalBinary" /\ ~call.err
                          THEN call.bytes ELSE << >>,
                signedness |-> IF call.op = "UnmarshalBinary"
                               THEN call.signedness ELSE Unsigned,
                v |-> call.v,
                out |-> Value_MarshalBinary(call.v)]
    /\ UNCHANGED << srv, handlers, lastReg, timeout, crashBy, acceptFail,
                    acceptLog, now, env, conns >>

NextValue ==
    \/ \E x \in IntSamples : CallNewValue(x)
    \/ \E x \in IntSamples : CallSet(x)
    \/ \E hi \in PatternBytes, lo \in PatternBytes, s \in {Unsigned, Signed} :
          CallUnmarshalValue(hi, lo, s)
    \/ CallMarshalValue
SpecValue == InitValue /\ [][NextValue]_vars

\* ------------------------------------------------------------------------
\* direct calls on a byte buffer: MBAP.UnmarshalBinary and MarshalBinary as
\* TestMBAP makes them, readMessage as TestReadMessage makes it
\* ------------------------------------------------------------------------
\* the longest buffer
MaxBuf == 8

\* the bytes a buffer is made of
BufferBytes == { 0, 1, 255 }

InitBuffer ==
    /\ InitServer
    /\ env = [split |-> FALSE, clients |-> 0]
    /\ call = [op |-> "Buffer", buf |-> << >>]

\* one more byte
AppendByte(b) ==
    /\ call.op = "Buffer"
    /\ Len(call.buf) < MaxBuf
    /\ call' = [call EXCEPT !.buf = Append(@, b)]
    /\ UNCHANGED << srv, handlers, lastReg, timeout, crashBy, acceptFail,
                    acceptLog, now, env, conns >>

\* err := m.UnmarshalBinary(buf)
CallUnmarshalMBAP ==
    /\ call.op = "Buffer"
    /\ LET d == MBAP_UnmarshalBinary(call.buf)
       IN  call' = [op |-> "MBAP.UnmarshalBinary", buf |-> call.buf,
                    err |-> d.err, m |-> d.m]
    /\ UNCHANGED << srv, handlers, lastReg, timeout, crashBy, acceptFail,
                    acceptLog, now, env, conns >>

\* out, _ := m.MarshalBinary() of the header just decoded
CallMarshalMBAP ==
    /\ call.op = "MBAP.UnmarshalBinary"
    /\ ~call.err
    /\ call' = [op |-> "MBAP.MarshalBinary", buf |-> call.buf, m |-> call.m,
                out |-> MBAP_MarshalBinary(call.m)]
    /\ UNCHANGED << srv, handlers, lastReg, timeout, crashBy, acceptFail,
                    acceptLog, now, env, conns >>

\* readMessage on a reader that holds buf, at least the 6 bytes of the
\* prefix: size is the length of the buffer it makes and returns
CallReadMessage ==
    /\ call.op = "Buffer"
    /\ Len(call.buf) >= 6
    /\ call' = [op |-> "readMessage", buf |-> call.buf,
                size |-> Len(ReadInto(MessageSize(call.buf), call.buf))]
    /\ UNCHANGED << srv, handlers, lastReg, timeout, crashBy, acceptFail,
                    acceptLog, now, env, conns >>

NextBuffer ==
    \/ \E b \in BufferBytes : AppendByte(b)
    \/ CallUnmarshalMBAP
    \/ CallMarshalMBAP
    \/ CallReadMessage
SpecBuffer == InitBuffer /\ [][NextBuffer]_vars

\* ------------------------------------------------------------------------
\* two clients whose requests can be told apart by their headers
\* ------------------------------------------------------------------------
\* the header fields of request n of the client on connection c
ClientTID(c, n) == 256 * c + n
ClientProtocol(c) == c
ClientUnit(c) == 16 + c

\* a framed message of the client on connection c
ClientFrame(c, n, fc, data) ==
    PutU16(ClientTID(c, n)) \o PutU16(ClientProtocol(c)) \o PutU16(Len(data) + 2)
        \o << ClientUnit(c), fc >> \o data

\* a read request, a write request, a request with no handler for its
\* function code, and a request whose payload is 2 bytes
ClientMessages(c, n) ==
    { ClientFrame(c, n, ReadHoldingRegisters, << 0, 5, 0, 2 >>),
      ClientFrame(c, n, WriteSingleRegister, << 0, 1, 243, 136 >>),
      ClientFrame(c, n, ReadCoils, << 0, 0, 0, 1 >>),
      ClientFrame(c, n, ReadHoldingRegisters, << 0, 5 >>) }

\* the client on connection c writes its next request
ClientSend(c) ==
    /\ Alive
    /\ conns[c].pc = "read"
    /\ ~conns[c].peerClosed
    /\ conns[c].wire = << >> /\ conns[c].rbuf = << >>
    /\ SumSent(Conns) < MaxMsgs
    /\ \E m \in ClientMessages(c, conns[c].nsent + 1) :
          conns' = Set(c, [conns[c] EXCEPT !.wire = @ \o m,
                                           !.pending = Append(@, m),
                                           !.nsent = @ + 1,
                                           !.msg = << >>, !.expect = << >>,
                                           !.lastWrite = NoWrite,
                                           !.cb = NilError, !.by = NoHandler])
    /\ UNCHANGED << srv, handlers, lastReg, timeout, crashBy, acceptFail,
                    acceptLog, now, env >>
    /\ UNCHANGED call

NextClients ==
    \/ \E code \in HandleCodes, h \in Handlers : Handle(code, h)
    \/ Listen
    \/ \E c \in Conns : Accept(c)
    \/ \E c \in Conns : ClientSend(c)
    \/ \E c \in Conns : PeerClose(c)
    \/ \E c \in Conns : FillData(c)
    \/ \E c \in Conns : FillEOF(c)
    \/ \E c \in Conns : ReadMessage(c)
    \/ \E c \in Conns : Exec(c)
SpecClients == Init /\ [][NextClients]_vars

\* ------------------------------------------------------------------------
\* properties
\* ------------------------------------------------------------------------
\* C1: on every connection, at most one request is in flight, each request
\* the worker has decoded has had its one conn.Write by the time the worker
\* is done with it (back in readMessage, returned, or gone), and that response
\* carries the request's transaction id.
C1_OneResponsePerRequest ==
    \A c \in Conns :
        LET r == conns[c]
            decoded == ~Request_UnmarshalBinary(r.msg).panic
        IN  /\ r.nwrite <= r.nread
            /\ r.nread - r.nwrite <= 1
            /\ (decoded /\ r.pc # "exec") => r.nwrite = r.nread
            /\ r.lastWrite # NoWrite =>
                  SubSeq(r.lastWrite.data, 1, 2) = SubSeq(r.msg, 1, 2)

\* C2: every buffer readMessage returns is, byte for byte, the message the
\* peer sent at that position of the stream, however the network split it.
C2_FramingExact ==
    \A c \in Conns :
        (conns[c].msg # << >> /\ conns[c].expect # << >>)
            => conns[c].msg = conns[c].expect

\* C3: a connection is closed exactly once, when its worker has exited, on
\* every way the worker can exit.
C3_ClosedExactlyOnce ==
    \A c \in Conns :
        /\ conns[c].closes <= 1
        /\ conns[c].pc \in {"closed", "panicked"} <=> conns[c].closes = 1

\* C4: a malformed request (Length 0 or 1, or a payload shorter than the 4
\* bytes a handler decodes) ends the worker of its connection with a reported
\* error and a close, and the server goes on serving.
C4_MalformedEndsOnlyItsWorker ==
    \A c \in Conns :
        conns[c].bad =>
            /\ conns[c].pc = "closed"
            /\ conns[c].ret = "error"
            /\ conns[c].closes = 1
            /\ srv = "listening"

\* C5: when the conn.Write of a response fails, the worker ends with the
\* write error, whichever path produced the response.
C5_WriteFailureEndsWorker ==
    \A c \in Conns :
        (conns[c].lastWrite # NoWrite /\ ~conns[c].lastWrite.ok)
            => (conns[c].pc = "closed" /\ conns[c].cause = "write")

\* C6: an error of Accept is logged and the server stays up, with and
\* without a timeout.
C6_AcceptErrorIsLogged ==
    acceptFail => (acceptLog /\ srv = "listening")

\* C7: handleConn returns nil when the stream ends at a message boundary, and
\* an error when a read fails or the stream ends in the middle of a message.
C7_ErrorUnlessCleanEnd ==
    \A c \in Conns :
        (conns[c].pc = "closed" /\ conns[c].cause \in {"eof", "readerr"})
            => (conns[c].ret = "nil"
                    <=> (conns[c].cause = "eof" /\ ~conns[c].trunc))

\* C8: a request is served by the handler registered last for its function
\* code, and without one exactly the IllegalFunction response is written:
\* function code c | 0x80, data [1], Length 3.
C8_Dispatch ==
    \A c \in Conns :
        LET r == conns[c]
            decoded == ~Request_UnmarshalBinary(r.msg).panic
            q == Request_UnmarshalBinary(r.msg).req
            or80 == IF q.FunctionCode >= 128 THEN q.FunctionCode
                    ELSE q.FunctionCode + 128
        IN  (decoded /\ r.pc # "exec") =>
                IF q.FunctionCode \in DOMAIN lastReg
                THEN r.by = lastReg[q.FunctionCode]
                ELSE /\ r.by = NoHandler
                     /\ r.nwrite = r.nread
                     /\ r.lastWrite.data
                          = PutU16(q.MBAP.TransactionID) \o PutU16(q.MBAP.ProtocolID)
                              \o << 0, 3, q.MBAP.UnitID, or80, 1 >>

\* C9: when the business callback returns an error, one exception response
\* is written whose data byte is the error's code when the error is typed
\* and the default code otherwise, and the worker is back in readMessage:
\* it ends only when the stream later ends or fails.
C9_CallbackErrorAnswered ==
    \A c \in Conns :
        LET r == conns[c]
            q == Request_UnmarshalBinary(r.msg).req
        IN  r.cb.isErr =>
                /\ r.nwrite = r.nread
                /\ Len(r.lastWrite.data) = 9
                /\ SubSeq(r.lastWrite.data, 1, 7)
                      = PutU16(q.MBAP.TransactionID) \o PutU16(q.MBAP.ProtocolID)
                            \o << 0, 3, q.MBAP.UnitID >>
                /\ r.lastWrite.data[9] = (IF r.cb.typed THEN r.cb.Code ELSE 5)
                /\ \/ r.pc = "read"
                   \/ r.pc = "closed" /\ r.cause \in {"eof", "readerr"}

\* a read callback returned an untyped error, a write callback a typed one,
\* both were answered and both workers are back in readMessage
C9_Witness ==
    /\ conns[1].cb = UntypedError /\ conns[1].by = ReadH
    /\ conns[1].pc = "read" /\ conns[1].nwrite = 1
    /\ conns[2].cb = SlaveDeviceBusyError /\ conns[2].by = WriteH
    /\ conns[2].pc = "read" /\ conns[2].nwrite = 1

\* C10: without a timeout no read ends by one; with timeout d a worker ended
\* by the timeout gets an error and had waited at least d for the request
\* it was waiting for.
C10_TimeoutPerRequest ==
    \A c \in Conns :
        /\ timeout = 0 => conns[c].cause # "timeout"
        /\ conns[c].cause = "timeout" =>
              /\ conns[c].ret = "error"
              /\ conns[c].tExit - conns[c].waitStart >= timeout
\* C11: a successful write of any of the three write function codes is
\* answered with header, function code and the first 4 bytes of the request
\* payload, nothing in between.
C11_WriteEchoShape ==
    (/\ call.op = "WriteHandler.ServeModbus"
     /\ ~call.served.panic /\ call.served.called /\ ~call.cb.isErr)
        => /\ SubSeq(call.wrote, 1, 4) = << 1, 2, 0, 0 >>
           /\ call.wrote[7] = call.req.MBAP.UnitID
           /\ SubSeq(call.wrote, 8, Len(call.wrote))
                 = << call.req.FunctionCode >> \o SubSeq(call.req.Data, 1, 4)
\* C12: for every function code c in 0..255 the exception response has
\* function code c | 0x80, one data byte and Length 3, and encodes to 9 bytes.
C12_ExceptionFunctionCode ==
    call.op = "NewErrorResponse" =>
        LET c == call.req.FunctionCode
            or80 == IF c >= 128 THEN c ELSE c + 128
        IN  /\ call.resp.FunctionCode = or80
            /\ Len(call.resp.Data) = 1
            /\ call.resp.MBAP.Length = 3
            /\ Len(call.wrote) = 9
            /\ call.wrote[8] = or80
            /\ call.wrote[9] = call.resp.Data[1]
\* C13: in every encoded response, success or exception, the Length field
\* is the number of bytes that follow it.
C13_LengthField ==
    call.op \in {"NewResponse", "NewErrorResponse", "ReadHandler.ServeModbus"}
        => U16(call.wrote[5], call.wrote[6]) = Len(call.wrote) - 6

\* C20: in every success response with a byte-count field, the count byte is
\* the number of data bytes that follow it.
C20_ByteCount ==
    (/\ call.op \in {"NewResponse", "ReadHandler.ServeModbus"}
     /\ call.req.FunctionCode \notin {WriteSingleCoil, WriteSingleRegister})
        => call.wrote[9] = Len(call.wrote) - 9
\* C14: reduce of N cells returns ceil(N/8) bytes; cell j, true iff its
\* value is > 0, is bit j mod 8 of the byte at index ceil(N/8) - 1 - j div 8,
\* and every other bit is 0.
C14_ReduceLayout ==
    call.op = "reduce" =>
        LET N == Len(call.values)
            bytes == (N + 7) \div 8
            \* cell j (0-based) as a bit
            Cell(j) == IF j < N /\ call.values[j + 1] > 0 THEN 1 ELSE 0
            \* the byte made of the cells 8g .. 8g+7
            Group(g) == Cell(8 * g) + 2 * Cell(8 * g + 1) + 4 * Cell(8 * g + 2)
                          + 8 * Cell(8 * g + 3) + 16 * Cell(8 * g + 4)
                          + 32 * Cell(8 * g + 5) + 64 * Cell(8 * g + 6)
                          + 128 * Cell(8 * g + 7)
        IN  /\ Len(call.out) = bytes
            /\ \A i \in 0..(bytes - 1) : call.out[i + 1] = Group(bytes - 1 - i)

\* reduce was given 17 cells, one of them negative, and returned 3 bytes
C14_Witness ==
    /\ call.op = "reduce"
    /\ call.values = << 1, 0, 0, 0, 0, 0, 0, 0, 1, -1, 0, 0, 0, 0, 0, 0, 1 >>
    /\ call.out = << 1, 1, 1 >>
\* C15: a WriteMultipleRegisters request with quantity q whose payload is not
\* 5 + 2q bytes long gets the IllegalDataValue exception and no callback;
\* otherwise the callback gets exactly q values, value k the 2 bytes at offset
\* 5 + 2k of the payload read with the handler's signedness.
C15_WriteMultipleRegisters ==
    (/\ call.op = "WriteHandler.ServeModbus"
     /\ call.req.FunctionCode = WriteMultipleRegisters) =>
        LET data == call.req.Data
            q == data[3] * 256 + data[4]
            Register(k) ==
                LET u == data[5 + 2 * k + 1] * 256 + data[5 + 2 * k + 2]
                IN  IF call.signedness = Signed /\ u >= 32768 THEN u - 65536
                    ELSE u
        IN  IF Len(data) # 5 + 2 * q
            THEN /\ ~call.served.called
                 /\ call.wrote = << 1, 2, 0, 0, 0, 3, 1, 144, 3 >>
            ELSE /\ call.served.called
                 /\ Len(call.served.arg) = q
                 /\ \A k \in 0..(q - 1) : call.served.arg[k + 1] = Register(k)

\* a signed handler was given two registers, f388 and 0088, and its callback
\* got -3192 and 136
C15_Witness ==
    /\ call.op = "WriteHandler.ServeModbus"
    /\ call.req.FunctionCode = WriteMultipleRegisters
    /\ call.req.Data = << 0, 1, 0, 2, 0, 243, 136, 0, 136 >>
    /\ call.signedness = Signed
    /\ call.served.called
    /\ call.served.arg = << -3192, 136 >>
\* C16: decoding a 2-byte pattern gives its signed value when Signed and its
\* unsigned value when Unsigned, and MarshalBinary of the decoded Value gives
\* the 2 bytes back.
C16_ValueRoundTrip ==
    /\ call.op = "UnmarshalBinary" =>
          LET u == call.bytes[1] * 256 + call.bytes[2]
          IN  /\ ~call.err
              /\ call.signedness = Unsigned => call.v = u
              /\ call.signedness = Signed =>
                    call.v = (IF u >= 32768 THEN u - 65536 ELSE u)
    /\ (call.op = "MarshalBinary" /\ call.bytes # << >>) =>
          call.out = call.bytes

\* f388 was decoded as signed, -3192, and marshalled back to f388
C16_Witness ==
    /\ call.op = "MarshalBinary"
    /\ call.bytes = << 243, 136 >>
    /\ call.signedness = Signed
    /\ call.v = -3192
    /\ call.out = << 243, 136 >>

\* C18: NewValue and Set fail exactly below -32768 and above 65535; after a
\* success Get returns the argument, after a failed Set what was stored
\* before; the stored value is always within -32768..65535.
C18_ValueRange ==
    /\ call.op \in {"NewValue", "Set"} =>
          /\ call.err <=> (call.arg < -32768 \/ call.arg > 65535)
          /\ ~call.err => call.v = call.arg
          /\ (call.op = "Set" /\ call.err) => call.v = call.prev
    /\ call.v >= -32768 /\ call.v <= 65535

\* Set(65536) failed on a Value holding 62344, which it still holds
C18_Witness ==
    /\ call.op = "Set"
    /\ call.arg = 65536
    /\ call.err
    /\ call.prev = 62344
    /\ call.v = 62344
\* C17: MBAP.UnmarshalBinary succeeds exactly on buffers of 7 bytes, reading
\* TransactionID, ProtocolID, Length (big endian) and UnitID in that order,
\* and MarshalBinary of the decoded header gives the 7 bytes back.
C17_MBAPRoundTrip ==
    /\ call.op = "MBAP.UnmarshalBinary" =>
          /\ call.err <=> Len(call.buf) # 7
          /\ ~call.err =>
                /\ call.m.TransactionID = call.buf[1] * 256 + call.buf[2]
                /\ call.m.ProtocolID = call.buf[3] * 256 + call.buf[4]
                /\ call.m.Length = call.buf[5] * 256 + call.buf[6]
                /\ call.m.UnitID = call.buf[7]
    /\ call.op = "MBAP.MarshalBinary" => call.out = call.buf

\* the header 00 01 01 00 ff 00 ff was decoded and marshalled back
C17_Witness ==
    /\ call.op = "MBAP.MarshalBinary"
    /\ call.buf = << 0, 1, 1, 0, 255, 0, 255 >>
    /\ call.m = [TransactionID |-> 1, ProtocolID |-> 256, Length |-> 65280,
                 UnitID |-> 255]
    /\ call.out = << 0, 1, 1, 0, 255, 0, 255 >>

\* C19: for every value of the Length field the buffer readMessage makes and
\* returns has 6 + Length bytes.
C19_MessageSize ==
    call.op = "readMessage" =>
        call.size = 6 + (call.buf[5] * 256 + call.buf[6])

\* C21: whatever the interleaving of the workers, a response is written only
\* on a connection a request was read from, the request it answers is the one
\* the client of that connection sent, and its header carries that request's
\* TransactionID, ProtocolID and UnitID, for success and exception responses.
C21_ResponseCorrelation ==
    \A c \in Conns :
        LET r == conns[c]
            w == r.lastWrite.data
        IN  /\ r.nwrite <= r.nread
            /\ r.lastWrite # NoWrite =>
                  /\ r.msg = r.expect
                  /\ SubSeq(w, 1, 4) = SubSeq(r.msg, 1, 4)
                  /\ w[7] = r.msg[7]
                  /\ SubSeq(w, 1, 2) = PutU16(ClientTID(c, r.nread))
                  /\ SubSeq(w, 3, 4) = PutU16(ClientProtocol(c))
                  /\ w[7] = ClientUnit(c)

\* the worker of connection 1 holds a read request it has not answered yet,
\* the worker of connection 2 has meanwhile answered a write request, and
\* connection 2 has got the echo with its own header
C21_Witness ==
    /\ conns[1].pc = "exec"
    /\ conns[1].msg = ClientFrame(1, 1, ReadHoldingRegisters, << 0, 5, 0, 2 >>)
    /\ conns[1].nwrite = 0
    /\ conns[2].pc = "read"
    /\ conns[2].by = WriteH
    /\ conns[2].lastWrite
          = [data |-> << 2, 1, 0, 2, 0, 6, 18, 6, 0, 1, 243, 136 >>, ok |-> TRUE]

\* C22: reduce leaves the caller's slice as it was, a second call on the
\* same slice returns the same bytes, and a ReadHandler whose callback returns
\* the same slice for two ReadCoils requests writes the same response twice.
C22_ReducePure ==
    /\ call.op = "reduce" => call.after = call.values
    /\ call.op = "reduce again" => call.out2 = call.out
    /\ (call.op = "ReadCoils" /\ Len(call.wrote) = 2) =>
          call.wrote[2] = call.wrote[1]

====
